---------------------------- MODULE Spec2Model ----------------------------
(***************************************************************************)
(* Model of the mysqld-exporter charm: src/src/pod_spec.py (make_pod_spec  *)
(* and its helpers) and src/src/charm.py (ConfigModel, MysqlExporterCharm).*)
(*                                                                         *)
(* Python values are tagged records: a str is [t |-> "str", s |-> chars]   *)
(* where chars is a sequence of one-character strings, None is             *)
(* [t |-> "none"], an int is [t |-> "int", i |-> n].  A dict is a function *)
(* whose DOMAIN is the set of keys present.                                *)
(***************************************************************************)
EXTENDS Integers, Sequences, FiniteSets, TLC

VARIABLES
    call,        \* the pending invocation of a function of pod_spec.py / build_pod_spec
    result,      \* what that invocation returned or raised
    config,      \* charm: self.config (the juju configuration of the application)
    relation,    \* charm: data of the mysql relation as seen by self.mysql_client
    is_leader,   \* charm: self.unit.is_leader()
    status,      \* charm: self.unit.status
    pod_spec,    \* charm: the pod spec last set by configure_pod
    scrape_info, \* charm: payload published on the prometheus-scrape relation
    dashboard_info \* charm: payload published on the grafana-dashboard relation

vars == <<call, result, config, relation, is_leader, status, pod_spec,
          scrape_info, dashboard_info>>

fnVars == <<call, result>>
charmVars == <<config, relation, is_leader, status, pod_spec, scrape_info, dashboard_info>>

-----------------------------------------------------------------------------
(* Python values *)

None == [t |-> "none"]
Str(chars) == [t |-> "str", s |-> chars]
IntV(n) == [t |-> "int", i |-> n]
Bool(b) == [t |-> "bool", b |-> b]
Dict(d) == [t |-> "dict", d |-> d]
List(items) == [t |-> "list", items |-> items]

IsStr(v) == v.t = "str"
IsNone(v) == v.t = "none"

\* bool(v) for the value kinds of this model
Truthy(v) ==
    CASE v.t = "none" -> FALSE
      [] v.t = "str" -> v.s # <<>>
      [] v.t = "int" -> v.i # 0
      [] v.t = "bool" -> v.b
      [] v.t = "dict" -> DOMAIN v.d # {}
      [] v.t = "list" -> v.items # <<>>

\* dict.get(key): the value, or None when the key is absent
Get(d, key) == IF key \in DOMAIN d THEN d[key] ELSE None

-----------------------------------------------------------------------------
(* str operations, on sequences of characters *)

UpperChars == <<"A","B","C","D","E","F","G","H","I","J","K","L","M",
                "N","O","P","Q","R","S","T","U","V","W","X","Y","Z">>
LowerChars == <<"a","b","c","d","e","f","g","h","i","j","k","l","m",
                "n","o","p","q","r","s","t","u","v","w","x","y","z">>
DigitChars == <<"0","1","2","3","4","5","6","7","8","9">>

Range(f) == {f[x] : x \in DOMAIN f}

IsAlpha(c) == c \in Range(UpperChars) \cup Range(LowerChars)
IsDigit(c) == c \in Range(DigitChars)

LowerChar(c) ==
    IF c \in Range(UpperChars)
    THEN LowerChars[CHOOSE k \in 1..26 : UpperChars[k] = c]
    ELSE c

\* str.lower()
Lower(s) == [k \in 1..Len(s) |-> LowerChar(s[k])]

\* str.startswith(prefix)
StartsWith(s, prefix) ==
    /\ Len(prefix) <= Len(s)
    /\ SubSeq(s, 1, Len(prefix)) = prefix

\* s[from:] with a 1-based index
Drop(s, from) == SubSeq(s, from, Len(s))

\* str.find(sub) as a 1-based index, 0 when sub does not occur
Find(s, sub) ==
    LET hits == {k \in 1..(Len(s) - Len(sub) + 1) : SubSeq(s, k, k + Len(sub) - 1) = sub}
    IN  IF hits = {} THEN 0 ELSE CHOOSE k \in hits : \A j \in hits : k <= j

\* str.rfind(sub) as a 1-based index, 0 when sub does not occur
RFind(s, sub) ==
    LET hits == {k \in 1..(Len(s) - Len(sub) + 1) : SubSeq(s, k, k + Len(sub) - 1) = sub}
    IN  IF hits = {} THEN 0 ELSE CHOOSE k \in hits : \A j \in hits : k >= j

\* str.replace(old, new): every non-overlapping occurrence, left to right
RECURSIVE Replace(_, _, _)
Replace(s, old, new) ==
    LET k == Find(s, old)
    IN  IF k = 0 \/ old = <<>>
        THEN s
        ELSE SubSeq(s, 1, k - 1) \o new \o Replace(Drop(s, k + Len(old)), old, new)

\* str.split(sep)[0]
SplitHead(s, sep) ==
    LET k == Find(s, sep)
    IN  IF k = 0 THEN s ELSE SubSeq(s, 1, k - 1)

\* str.split(sep): the list of pieces
RECURSIVE Split(_, _)
Split(s, sep) ==
    LET k == Find(s, sep)
    IN  IF k = 0 THEN <<s>>
        ELSE <<SubSeq(s, 1, k - 1)>> \o Split(Drop(s, k + Len(sep)), sep)

DigitValue(c) == (CHOOSE k \in 1..10 : DigitChars[k] = c) - 1

\* the value of a non-empty string of decimal digits
RECURSIVE DecimalValue(_)
DecimalValue(s) ==
    IF s = <<>> THEN 0
    ELSE 10 * DecimalValue(SubSeq(s, 1, Len(s) - 1)) + DigitValue(s[Len(s)])

IsDecimal(s) == s # <<>> /\ \A k \in 1..Len(s) : IsDigit(s[k])

-----------------------------------------------------------------------------
(* urllib.parse.urlparse, for URLs without control characters *)

SchemeChars == Range(UpperChars) \cup Range(LowerChars) \cup Range(DigitChars)
                 \cup {"+", "-", "."}

\* TRUE when the text before the first ":" is taken as the scheme
HasScheme(url) ==
    LET k == Find(url, <<":">>)
    IN  /\ k > 1
        /\ IsAlpha(url[1])
        /\ \A j \in 1..(k - 1) : url[j] \in SchemeChars

\* urlparse(url).scheme
UrlScheme(url) ==
    IF HasScheme(url) THEN Lower(SubSeq(url, 1, Find(url, <<":">>) - 1)) ELSE <<>>

\* what urlsplit keeps parsing after the scheme was taken off
UrlAfterScheme(url) ==
    IF HasScheme(url) THEN Drop(url, Find(url, <<":">>) + 1) ELSE url

\* urlparse(url).netloc: after "//", up to the first of "/", "?", "#"
UrlNetloc(url) ==
    LET rest == UrlAfterScheme(url)
        body == Drop(rest, 3)
        ends == {k \in 1..Len(body) : body[k] \in {"/", "?", "#"}}
        stop == IF ends = {} THEN Len(body) + 1
                ELSE CHOOSE k \in ends : \A j \in ends : k <= j
    IN  IF StartsWith(rest, <<"/", "/">>) THEN SubSeq(body, 1, stop - 1) ELSE <<>>

\* urlparse(url).hostname: the netloc after its last "@", up to ":", lower-cased;
\* None when that is empty (netlocs with "[" are outside the modelled inputs)
UrlHostname(url) ==
    LET netloc == UrlNetloc(url)
        hostinfo == Drop(netloc, RFind(netloc, <<"@">>) + 1)
        host == SplitHead(hostinfo, <<":">>)
    IN  IF host = <<>> THEN None ELSE Str(Lower(host))

-----------------------------------------------------------------------------
(* ipaddress.ip_network(value), strict, for IPv4 text "a.b.c.d" or "a.b.c.d/n" *)

RECURSIVE Pow2(_)
Pow2(n) == IF n = 0 THEN 1 ELSE 2 * Pow2(n - 1)

IsOctet(s) == IsDecimal(s) /\ Len(s) <= 3 /\ DecimalValue(s) <= 255

\* TRUE when ip_network(s) returns, FALSE when it raises ValueError
IpNetworkOk(s) ==
    LET parts == Split(s, <<"/">>)
        octets == Split(parts[1], <<".">>)
        prefixOk == Len(parts) = 1
                     \/ (IsDecimal(parts[2]) /\ Len(parts[2]) <= 2
                         /\ DecimalValue(parts[2]) <= 32)
        prefix == IF Len(parts) = 1 THEN 32 ELSE DecimalValue(parts[2])
        address == DecimalValue(octets[1]) * 16777216 + DecimalValue(octets[2]) * 65536
                     + DecimalValue(octets[3]) * 256 + DecimalValue(octets[4])
    IN  /\ Len(parts) <= 2
        /\ Len(octets) = 4
        /\ \A k \in 1..4 : IsOctet(octets[k])
        /\ prefixOk
        /\ address % Pow2(32 - prefix) = 0

-----------------------------------------------------------------------------
(* String literals of the source *)

s_http == <<"h","t","t","p">>
s_https == <<"h","t","t","p","s">>
s_false == <<"f","a","l","s","e">>
s_ingress_suffix == <<"-","i","n","g","r","e","s","s">>
s_exporter_port_name == <<"m","y","s","q","l","d","-","e","x","p","o","r","t","e","r">>
s_health_path == <<"/","a","p","i","/","h","e","a","l","t","h">>
s_slash == <<"/">>
s_TCP == <<"T","C","P">>
s_Always == <<"A","l","w","a","y","s">>
s_IfNotPresent == <<"I","f","N","o","t","P","r","e","s","e","n","t">>
s_Never == <<"N","e","v","e","r">>
s_always == <<"a","l","w","a","y","s">>
s_ifnotpresent == <<"i","f","n","o","t","p","r","e","s","e","n","t">>
s_never == <<"n","e","v","e","r">>
s_exporter == <<"e","x","p","o","r","t","e","r">>
s_mysql_secret_suffix == <<"-","m","y","s","q","l","-","s","e","c","r","e","t">>
s_data_source == <<"d","a","t","a","_","s","o","u","r","c","e">>
s_mysql_prefix == <<"m","y","s","q","l",":","/","/">>

\* the annotation keys; dict keys are plain strings
AnnWhitelist == "nginx.ingress.kubernetes.io/whitelist-source-range"
AnnClusterIssuer == "cert-manager.io/cluster-issuer"
AnnSslRedirect == "nginx.ingress.kubernetes.io/ssl-redirect"
AnnIngressClass == "kubernetes.io/ingress.class"

\* an empty dict
EmptyDict == [k \in {} |-> None]

\* d[key] = value on a dict
Put(d, key, value) == [k \in (DOMAIN d) \cup {key} |-> IF k = key THEN value ELSE d[k]]

-----------------------------------------------------------------------------
(* src/src/pod_spec.py *)

\* outcomes of a call
Return(v) == [kind |-> "return", value |-> v]
Raise(exc, about) == [kind |-> "raise", exc |-> exc, about |-> about]

_validate_ip_network(network) ==
    IF ~Truthy(network) THEN TRUE
    ELSE IF IsStr(network) THEN IpNetworkOk(network.s)
    ELSE network.t = "int" /\ network.i >= 0

IsInstanceStrOrNone(value) == IF ~IsNone(value) THEN IsStr(value) ELSE TRUE

\* int(value) raises ValueError unless the text is an optionally signed decimal
IntParses(s) ==
    \/ IsDecimal(s)
    \/ (Len(s) > 1 /\ s[1] \in {"+", "-"} /\ IsDecimal(Tail(s)))

IntOf(s) ==
    IF s[1] = "-" THEN 0 - DecimalValue(Tail(s))
    ELSE IF s[1] = "+" THEN DecimalValue(Tail(s))
    ELSE DecimalValue(s)

NonEmptyStr(value) == IsStr(value) /\ Len(value.s) > 0

ConfigValidatorKeys ==
    <<"site_url", "cluster_issuer", "ingress_whitelist_source_range", "tls_secret_name">>
RelationValidatorKeys ==
    <<"mysql_host", "mysql_port", "mysql_user", "mysql_password", "mysql_root_password">>

config_validators(key, value) ==
    CASE key = "site_url" -> IsInstanceStrOrNone(value)
      [] key = "cluster_issuer" -> IsInstanceStrOrNone(value)
      [] key = "ingress_whitelist_source_range" -> _validate_ip_network(value)
      [] key = "tls_secret_name" -> IsInstanceStrOrNone(value)

\* variant: an empty mysql_host is let through
relation_validators_empty_host(key, value) ==
    CASE key = "mysql_host" -> IsStr(value)
      [] key = "mysql_port" -> IsStr(value) /\ IntOf(value.s) > 0
      [] key = "mysql_user" -> NonEmptyStr(value)
      [] key = "mysql_password" -> NonEmptyStr(value)
      [] key = "mysql_root_password" -> NonEmptyStr(value)

\* the mysql_port validator is evaluated only when int(value) does not raise
relation_validators(key, value) ==
    CASE key = "mysql_host" -> NonEmptyStr(value)
      [] key = "mysql_port" -> IsStr(value) /\ IntOf(value.s) > 0
      [] key = "mysql_user" -> NonEmptyStr(value)
      [] key = "mysql_password" -> NonEmptyStr(value)
      [] key = "mysql_root_password" -> NonEmptyStr(value)

\* the keys of `keys`, in order, whose validator rejects the value
RECURSIVE Problems(_, _, _)
Problems(keys, data, isConfig) ==
    IF keys = <<>> THEN <<>>
    ELSE LET key == Head(keys)
             valid == IF isConfig THEN config_validators(key, Get(data, key))
                      ELSE relation_validators(key, Get(data, key))
         IN  (IF valid THEN <<>> ELSE <<key>>) \o Problems(Tail(keys), data, isConfig)

\* int(value) raises inside the mysql_port validator: the loop is left at once
PortIntRaises(relation_data) ==
    LET value == Get(relation_data, "mysql_port")
    IN  IsStr(value) /\ ~IntParses(value.s)

_validate_data(config_data, relation_data) ==
    IF PortIntRaises(relation_data)
    THEN Raise("ValueError", <<"invalid literal for int()">>)
    ELSE LET problems == Problems(ConfigValidatorKeys, config_data, TRUE)
                           \o Problems(RelationValidatorKeys, relation_data, FALSE)
         IN  IF Len(problems) > 0
             THEN Raise("ValueError", problems)
             ELSE Return(TRUE)

_make_pod_ports(port) ==
    <<[name |-> Str(s_exporter_port_name), containerPort |-> port, protocol |-> Str(s_TCP)]>>

\* variant: the user of the relation instead of root
_make_pod_envconfig_relation_user(cfg, relation_state) ==
    [DATA_SOURCE_NAME |->
        Str(relation_state["mysql_user"].s \o <<":">>
            \o relation_state["mysql_root_password"].s
            \o <<"@","(">> \o relation_state["mysql_host"].s
            \o <<":">> \o relation_state["mysql_port"].s \o <<")","/">>)]

\* variant: the password of the user instead of the root password
_make_pod_envconfig_user_password(cfg, relation_state) ==
    [DATA_SOURCE_NAME |->
        Str(<<"r","o","o","t",":">> \o relation_state["mysql_password"].s
            \o <<"@","(">> \o relation_state["mysql_host"].s
            \o <<":">> \o relation_state["mysql_port"].s \o <<")","/">>)]

\* "root:{mysql_root_password}@({mysql_host}:{mysql_port})/".format(**relation_state)
_make_pod_envconfig(cfg, relation_state) ==
    [DATA_SOURCE_NAME |->
        Str(<<"r","o","o","t",":">> \o relation_state["mysql_root_password"].s
            \o <<"@","(">> \o relation_state["mysql_host"].s
            \o <<":">> \o relation_state["mysql_port"].s \o <<")","/">>)]

\* variant: secretName is written whether or not tls_secret_name is set
MakeIngress_always_secret(cfg, parsed_scheme, parsed_hostname, app_name, port) ==
    LET ingress_whitelist_source_range == cfg["ingress_whitelist_source_range"]
        cluster_issuer == cfg["cluster_issuer"]
        a0 == EmptyDict
        a1 == IF Truthy(ingress_whitelist_source_range)
              THEN Put(a0, AnnWhitelist, ingress_whitelist_source_range) ELSE a0
        a2 == IF Truthy(cluster_issuer)
              THEN Put(a1, AnnClusterIssuer, cluster_issuer) ELSE a1
        annotations == IF parsed_scheme = s_https THEN a2
                       ELSE Put(a2, AnnSslRedirect, Str(s_false))
        tls0 == [hosts |-> <<parsed_hostname>>]
        ingress_spec_tls ==
            IF parsed_scheme = s_https
            THEN <<Put(tls0, "secretName", cfg["tls_secret_name"])>>
            ELSE <<>>
        rules == <<[host |-> parsed_hostname,
                    http |-> [paths |-> <<[path |-> Str(s_slash),
                                           backend |-> [serviceName |-> app_name,
                                                        servicePort |-> port]]>>]]>>
        spec0 == [rules |-> rules]
    IN  [name |-> Str(app_name.s \o s_ingress_suffix),
         annotations |-> annotations,
         spec |-> IF ingress_spec_tls # <<>> THEN Put(spec0, "tls", ingress_spec_tls)
                  ELSE spec0]

\* variant: the cluster issuer is annotated only next to a whitelist
MakeIngress_issuer_needs_whitelist(cfg, parsed_scheme, parsed_hostname, app_name, port) ==
    LET ingress_whitelist_source_range == cfg["ingress_whitelist_source_range"]
        cluster_issuer == cfg["cluster_issuer"]
        a0 == EmptyDict
        a1 == IF Truthy(ingress_whitelist_source_range)
              THEN Put(a0, AnnWhitelist, ingress_whitelist_source_range) ELSE a0
        a2 == IF Truthy(cluster_issuer) /\ Truthy(ingress_whitelist_source_range)
              THEN Put(a1, AnnClusterIssuer, cluster_issuer) ELSE a1
        annotations == IF parsed_scheme = s_https THEN a2
                       ELSE Put(a2, AnnSslRedirect, Str(s_false))
        tls0 == [hosts |-> <<parsed_hostname>>]
        ingress_spec_tls ==
            IF parsed_scheme = s_https
            THEN <<IF Truthy(cfg["tls_secret_name"])
                   THEN Put(tls0, "secretName", cfg["tls_secret_name"]) ELSE tls0>>
            ELSE <<>>
        rules == <<[host |-> parsed_hostname,
                    http |-> [paths |-> <<[path |-> Str(s_slash),
                                           backend |-> [serviceName |-> app_name,
                                                        servicePort |-> port]]>>]]>>
        spec0 == [rules |-> rules]
    IN  [name |-> Str(app_name.s \o s_ingress_suffix),
         annotations |-> annotations,
         spec |-> IF ingress_spec_tls # <<>> THEN Put(spec0, "tls", ingress_spec_tls)
                  ELSE spec0]

\* variant: ssl-redirect is switched off for every scheme
MakeIngress_always_redirect(cfg, parsed_scheme, parsed_hostname, app_name, port) ==
    LET ingress_whitelist_source_range == cfg["ingress_whitelist_source_range"]
        cluster_issuer == cfg["cluster_issuer"]
        a0 == EmptyDict
        a1 == IF Truthy(ingress_whitelist_source_range)
              THEN Put(a0, AnnWhitelist, ingress_whitelist_source_range) ELSE a0
        a2 == IF Truthy(cluster_issuer)
              THEN Put(a1, AnnClusterIssuer, cluster_issuer) ELSE a1
        annotations == Put(a2, AnnSslRedirect, Str(s_false))
        tls0 == [hosts |-> <<parsed_hostname>>]
        ingress_spec_tls ==
            IF parsed_scheme = s_https
            THEN <<IF Truthy(cfg["tls_secret_name"])
                   THEN Put(tls0, "secretName", cfg["tls_secret_name"]) ELSE tls0>>
            ELSE <<>>
        rules == <<[host |-> parsed_hostname,
                    http |-> [paths |-> <<[path |-> Str(s_slash),
                                           backend |-> [serviceName |-> app_name,
                                                        servicePort |-> port]]>>]]>>
        spec0 == [rules |-> rules]
    IN  [name |-> Str(app_name.s \o s_ingress_suffix),
         annotations |-> annotations,
         spec |-> IF ingress_spec_tls # <<>> THEN Put(spec0, "tls", ingress_spec_tls)
                  ELSE spec0]

\* the ingress built once every key was read (lines 160-205)
MakeIngress(cfg, parsed_scheme, parsed_hostname, app_name, port) ==
    LET ingress_whitelist_source_range == cfg["ingress_whitelist_source_range"]
        cluster_issuer == cfg["cluster_issuer"]
        a0 == EmptyDict
        a1 == IF Truthy(ingress_whitelist_source_range)
              THEN Put(a0, AnnWhitelist, ingress_whitelist_source_range) ELSE a0
        a2 == IF Truthy(cluster_issuer)
              THEN Put(a1, AnnClusterIssuer, cluster_issuer) ELSE a1
        annotations == IF parsed_scheme = s_https THEN a2
                       ELSE Put(a2, AnnSslRedirect, Str(s_false))
        tls0 == [hosts |-> <<parsed_hostname>>]
        ingress_spec_tls ==
            IF parsed_scheme = s_https
            THEN <<IF Truthy(cfg["tls_secret_name"])
                   THEN Put(tls0, "secretName", cfg["tls_secret_name"]) ELSE tls0>>
            ELSE <<>>
        rules == <<[host |-> parsed_hostname,
                    http |-> [paths |-> <<[path |-> Str(s_slash),
                                           backend |-> [serviceName |-> app_name,
                                                        servicePort |-> port]]>>]]>>
        spec0 == [rules |-> rules]
    IN  [name |-> Str(app_name.s \o s_ingress_suffix),
         annotations |-> annotations,
         spec |-> IF ingress_spec_tls # <<>> THEN Put(spec0, "tls", ingress_spec_tls)
                  ELSE spec0]

_make_pod_ingress_resources(cfg, app_name, port) ==
    LET site_url == Get(cfg, "site_url")
    IN  IF ~Truthy(site_url) THEN Return(None)
        ELSE IF ~StartsWith(UrlScheme(site_url.s), s_http) THEN Return(None)
        ELSE IF "ingress_whitelist_source_range" \notin DOMAIN cfg
        THEN Raise("KeyError", <<"ingress_whitelist_source_range">>)
        ELSE IF "cluster_issuer" \notin DOMAIN cfg
        THEN Raise("KeyError", <<"cluster_issuer">>)
        ELSE IF UrlScheme(site_url.s) = s_https /\ "tls_secret_name" \notin DOMAIN cfg
        THEN Raise("KeyError", <<"tls_secret_name">>)
        ELSE Return(List(<<MakeIngress(cfg, UrlScheme(site_url.s),
                                       UrlHostname(site_url.s), app_name, port)>>))

_make_readiness_probe(port) ==
    [httpGet |-> [path |-> Str(s_health_path), port |-> port],
     initialDelaySeconds |-> 10,
     periodSeconds |-> 10,
     timeoutSeconds |-> 5,
     successThreshold |-> 1,
     failureThreshold |-> 3]

_make_liveness_probe(port) ==
    [httpGet |-> [path |-> Str(s_health_path), port |-> port],
     initialDelaySeconds |-> 60,
     timeoutSeconds |-> 30,
     failureThreshold |-> 10]

\* variant: the `or []` is left out
OrEmptyList_identity(v) == v

\* `ingress_resources or []`
OrEmptyList(v) == IF Truthy(v) THEN v ELSE List(<<>>)

\* variant: the data is validated before the image is looked at
make_pod_spec_validate_first(image_info, cfg, relation_state, app_name, port) ==
    IF _validate_data(cfg, relation_state).kind = "raise"
    THEN _validate_data(cfg, relation_state)
    ELSE Return(None)

make_pod_spec(image_info, cfg, relation_state, app_name, port) ==
    IF ~Truthy(image_info) THEN Return(None)
    ELSE LET validated == _validate_data(cfg, relation_state)
             ingress_resources == _make_pod_ingress_resources(cfg, app_name, port)
         IN  IF validated.kind = "raise" THEN validated
             ELSE IF ingress_resources.kind = "raise" THEN ingress_resources
             ELSE Return(
                 [version |-> 3,
                  containers |-> <<
                      [name |-> app_name,
                       imageDetails |-> image_info,
                       imagePullPolicy |-> Str(s_Always),
                       ports |-> _make_pod_ports(port),
                       envConfig |-> _make_pod_envconfig(cfg, relation_state),
                       kubernetes |-> [readinessProbe |-> _make_readiness_probe(port),
                                       livenessProbe |-> _make_liveness_probe(port)]]>>,
                  kubernetesResources |->
                      [ingressResources |-> OrEmptyList(ingress_resources.value)]])

-----------------------------------------------------------------------------
(* src/src/charm.py: ConfigModel *)

PORT == 9104

\* a validator returns the value to store, or raises ValueError
Valid(v) == [ok |-> TRUE, value |-> v]
Invalid == [ok |-> FALSE]

\* variant: the scheme of the URL is not looked at
validate_site_url_any_scheme(v) == Valid(v)

validate_site_url(v) ==
    IF Truthy(v) /\ ~StartsWith(UrlScheme(v.s), s_http) THEN Invalid ELSE Valid(v)

validate_ingress_whitelist_source_range(v) ==
    IF Truthy(v) /\ ~IpNetworkOk(v.s) THEN Invalid ELSE Valid(v)

validate_mysql_uri(v) ==
    IF Truthy(v) /\ ~StartsWith(v.s, s_mysql_prefix) THEN Invalid ELSE Valid(v)

\* variant: the value is looked up as given, without lower()
validate_image_pull_policy_case_sensitive(v) ==
    LET lowered == v.s
    IN  CASE lowered = s_always -> Valid(Str(s_Always))
          [] lowered = s_ifnotpresent -> Valid(Str(s_IfNotPresent))
          [] lowered = s_never -> Valid(Str(s_Never))
          [] OTHER -> Invalid

validate_image_pull_policy(v) ==
    LET lowered == Lower(v.s)
    IN  CASE lowered = s_always -> Valid(Str(s_Always))
          [] lowered = s_ifnotpresent -> Valid(Str(s_IfNotPresent))
          [] lowered = s_never -> Valid(Str(s_Never))
          [] OTHER -> Invalid

ConfigFields ==
    <<"site_url", "cluster_issuer", "ingress_class", "ingress_whitelist_source_range",
      "tls_secret_name", "mysql_uri", "image_pull_policy", "security_context">>

RequiredFields == {"image_pull_policy", "security_context"}

\* the validator registered for a field, applied to the value given for it
FieldValidator(field, v) ==
    CASE field = "site_url" -> validate_site_url(v)
      [] field = "ingress_whitelist_source_range" -> validate_ingress_whitelist_source_range(v)
      [] field = "mysql_uri" -> validate_mysql_uri(v)
      [] field = "image_pull_policy" -> validate_image_pull_policy(v)
      [] OTHER -> Valid(v)

\* the first field, in declaration order, that is required and absent or whose
\* validator raises; 0 when there is none
FirstInvalidField(data) ==
    LET bad == {k \in 1..Len(ConfigFields) :
                    LET field == ConfigFields[k]
                    IN  IF field \in DOMAIN data
                        THEN ~FieldValidator(field, data[field]).ok
                        ELSE field \in RequiredFields}
    IN  IF bad = {} THEN 0 ELSE CHOOSE k \in bad : \A j \in bad : k <= j

\* ConfigModel(**data): the record of validated values, absent optional fields None
ConfigModel(data) ==
    LET k == FirstInvalidField(data)
    IN  IF k # 0 THEN Raise("ValidationError", <<ConfigFields[k]>>)
        ELSE Return([field \in Range(ConfigFields) |->
                        IF field \in DOMAIN data
                        THEN FieldValidator(field, data[field]).value
                        ELSE None])

-----------------------------------------------------------------------------
(* src/src/charm.py: MysqlExporterCharm *)

\* MysqlClient: the properties read the data the related mysql unit published
MysqlProperty(rel, key) == Get(rel, key)

is_missing_data_in_unit(rel) ==
    ~\A key \in {"host", "port", "user", "password", "root_password"} :
        Truthy(MysqlProperty(rel, key))

\* variant: the configured mysql_uri is not looked at
_check_missing_dependencies_ignores_uri(cfg, rel) ==
    IF is_missing_data_in_unit(rel)
    THEN Raise("RelationsMissing", <<"mysql">>)
    ELSE Return(None)

\* variant: the missing relation is reported under another name
_check_missing_dependencies_kafka(cfg, rel) ==
    IF ~Truthy(cfg["mysql_uri"]) /\ is_missing_data_in_unit(rel)
    THEN Raise("RelationsMissing", <<"kafka">>)
    ELSE Return(None)

_check_missing_dependencies(cfg, rel) ==
    LET missing_relations ==
            IF ~Truthy(cfg["mysql_uri"]) /\ is_missing_data_in_unit(rel)
            THEN <<"mysql">> ELSE <<>>
    IN  IF missing_relations # <<>> THEN Raise("RelationsMissing", missing_relations)
        ELSE Return(None)

\* variant: the user is root and the text before "@" is dropped
DataSource_root_user(cfg, rel) ==
    IF Truthy(cfg["mysql_uri"])
    THEN LET uri == cfg["mysql_uri"].s
         IN  Str(<<"r","o","o","t",":">> \o <<"@","(">>
                 \o SplitHead(Drop(uri, Find(uri, <<"@">>) + 1), s_slash) \o <<")", "/">>)
    ELSE Str(<<"r","o","o","t",":">> \o MysqlProperty(rel, "root_password").s
             \o <<"@","(">> \o MysqlProperty(rel, "host").s
             \o <<":">> \o MysqlProperty(rel, "port").s \o <<")","/">>)

\* lines 206-210
DataSource(cfg, rel) ==
    IF Truthy(cfg["mysql_uri"])
    THEN Str(SplitHead(Replace(Replace(cfg["mysql_uri"].s, s_mysql_prefix, <<>>),
                               <<"@">>, <<"@", "(">>),
                       s_slash) \o <<")", "/">>)
    ELSE Str(<<"r","o","o","t",":">> \o MysqlProperty(rel, "root_password").s
             \o <<"@","(">> \o MysqlProperty(rel, "host").s
             \o <<":">> \o MysqlProperty(rel, "port").s \o <<")","/">>)

\* lines 263-289: what is handed to IngressResourceV3Builder
BuildIngress(cfg, app_name) ==
    LET parsed_scheme == UrlScheme(cfg["site_url"].s)
        parsed_hostname == UrlHostname(cfg["site_url"].s)
        a0 == IF Truthy(cfg["ingress_class"])
              THEN Put(EmptyDict, AnnIngressClass, cfg["ingress_class"]) ELSE EmptyDict
        a1 == IF Truthy(cfg["ingress_whitelist_source_range"])
              THEN Put(a0, AnnWhitelist, cfg["ingress_whitelist_source_range"]) ELSE a0
        a2 == IF Truthy(cfg["cluster_issuer"])
              THEN Put(a1, AnnClusterIssuer, cfg["cluster_issuer"]) ELSE a1
        annotations == IF parsed_scheme = s_https THEN a2
                       ELSE Put(a2, AnnSslRedirect, Str(s_false))
    IN  [name |-> Str(app_name.s \o s_ingress_suffix),
         annotations |-> annotations,
         tls |-> IF parsed_scheme = s_https
                 THEN <<[hosts |-> <<parsed_hostname>>,
                         secret_name |-> cfg["tls_secret_name"]]>>
                 ELSE <<>>,
         rules |-> <<[hostname |-> parsed_hostname, service_name |-> app_name,
                      port |-> PORT]>>]

\* variant: the container is never marked run-as-non-root
BuildSpec_never_non_root(image_info, cfg, rel, app_name) ==
    LET mysql_secret_name == Str(app_name.s \o s_mysql_secret_suffix)
    IN  [enable_security_context |-> cfg["security_context"],
         secrets |-> <<[name |-> mysql_secret_name,
                        data |-> [data_source |-> DataSource(cfg, rel)]]>>,
         containers |-> <<
             [name |-> app_name,
              image_info |-> image_info,
              image_pull_policy |-> cfg["image_pull_policy"],
              run_as_non_root |-> Bool(FALSE),
              ports |-> <<[name |-> Str(s_exporter), port |-> PORT]>>,
              http_readiness_probe |->
                  [path |-> Str(s_health_path), port |-> PORT,
                   initial_delay_seconds |-> 10, period_seconds |-> 10,
                   timeout_seconds |-> 5, success_threshold |-> 1,
                   failure_threshold |-> 3],
              http_liveness_probe |->
                  [path |-> Str(s_health_path), port |-> PORT,
                   initial_delay_seconds |-> 60, timeout_seconds |-> 30,
                   failure_threshold |-> 10],
              secret_envs |-> [secret_name |-> mysql_secret_name,
                               envs |-> [DATA_SOURCE_NAME |-> Str(s_data_source)]]]>>,
         restart_policy |-> [secret_names |-> mysql_secret_name],
         ingress_resources |-> IF Truthy(cfg["site_url"])
                               THEN <<BuildIngress(cfg, app_name)>> ELSE <<>>]

\* lines 212-291: what is handed to the pod spec, container and ingress builders
BuildSpec(image_info, cfg, rel, app_name) ==
    LET mysql_secret_name == Str(app_name.s \o s_mysql_secret_suffix)
    IN  [enable_security_context |-> cfg["security_context"],
         secrets |-> <<[name |-> mysql_secret_name,
                        data |-> [data_source |-> DataSource(cfg, rel)]]>>,
         containers |-> <<
             [name |-> app_name,
              image_info |-> image_info,
              image_pull_policy |-> cfg["image_pull_policy"],
              run_as_non_root |-> cfg["security_context"],
              ports |-> <<[name |-> Str(s_exporter), port |-> PORT]>>,
              http_readiness_probe |->
                  [path |-> Str(s_health_path), port |-> PORT,
                   initial_delay_seconds |-> 10, period_seconds |-> 10,
                   timeout_seconds |-> 5, success_threshold |-> 1,
                   failure_threshold |-> 3],
              http_liveness_probe |->
                  [path |-> Str(s_health_path), port |-> PORT,
                   initial_delay_seconds |-> 60, timeout_seconds |-> 30,
                   failure_threshold |-> 10],
              secret_envs |-> [secret_name |-> mysql_secret_name,
                               envs |-> [DATA_SOURCE_NAME |-> Str(s_data_source)]]]>>,
         restart_policy |-> [secret_names |-> mysql_secret_name],
         ingress_resources |-> IF Truthy(cfg["site_url"])
                               THEN <<BuildIngress(cfg, app_name)>> ELSE <<>>]

\* variant: the check of lines 200-201 is left out
build_pod_spec_validated_no_conflict_check(image_info, validated, rel, app_name) ==
    LET cfg == validated.value
    IN  IF validated.kind = "raise" THEN validated
        ELSE IF _check_missing_dependencies(cfg, rel).kind = "raise"
        THEN _check_missing_dependencies(cfg, rel)
        ELSE Return(BuildSpec(image_info, cfg, rel, app_name))

\* lines 198-291, given the outcome of ConfigModel(**config): a ValidationError
\* leaves the method, then the conflict check, the dependency check, the build
build_pod_spec_validated(image_info, validated, rel, app_name) ==
    LET cfg == validated.value
    IN  IF validated.kind = "raise" THEN validated
        ELSE IF Truthy(cfg["mysql_uri"]) /\ ~is_missing_data_in_unit(rel)
        THEN Raise("Exception", <<"Mysql data cannot be provided via config and relation">>)
        ELSE IF _check_missing_dependencies(cfg, rel).kind = "raise"
        THEN _check_missing_dependencies(cfg, rel)
        ELSE Return(BuildSpec(image_info, cfg, rel, app_name))

build_pod_spec(image_info, data, rel, app_name) ==
    build_pod_spec_validated(image_info, ConfigModel(data), rel, app_name)

-----------------------------------------------------------------------------
(* Bounded inputs *)

\* generated texts have at most this many characters
MaxWordLen == 2

\* characters of generated passwords: a letter and the separators of the formats
WordChars == {"r", "@", "/"}

RECURSIVE WordsOfLen(_)
WordsOfLen(n) ==
    IF n = 0 THEN {<<>>}
    ELSE {<<c>> \o w : c \in WordChars, w \in WordsOfLen(n - 1)}

Words == UNION {WordsOfLen(n) : n \in 1..MaxWordLen}

Absent == [t |-> "absent"]

\* the dict holding the chosen value of every key that is not left out
MkDict(choices) ==
    [k \in {key \in DOMAIN choices : choices[key] # Absent} |-> choices[k]]

u_empty == <<>>
u_http == <<"h","t","t","p",":","/","/","m","y","s","q","l","d","-","e","x","p","o","r","t","e","r">>
u_https == <<"h","t","t","p","s",":","/","/","e",".","i","o">>
u_httpx == <<"h","t","t","p","x",":","/","/","e",".","i","o">>
u_ftp == <<"f","t","p",":","/","/","e",".","i","o">>
u_bare == <<"e",".","i","o">>
u_upper == <<"H","T","T","P","S",":","/","/","E",".","i","o","/","p">>
u_full == <<"h","t","t","p",":","/","/","u","@","e",".","i","o",":","8","0","/","p">>

SiteUrls == {u_empty, u_http, u_https, u_httpx, u_ftp, u_bare, u_upper, u_full}

w_vault == <<"v","a","u","l","t","-","i","s","s","u","e","r">>
w_nginx == <<"n","g","i","n","x">>
w_secret == <<"s","e","c","r","e","t","_","n","a","m","e">>
w_cidr == <<"1","0",".","0",".","0",".","0","/","8">>
w_hostbits == <<"1","0",".","0",".","0",".","1","/","8">>
w_notcidr == <<"n","o","t","-","a","-","c","i","d","r">>

AppName == Str(<<"m","y","s","q","l","d","-","e","x","p","o","r","t","e","r">>)

ImageInfos ==
    {None, Dict(EmptyDict), Dict(Put(EmptyDict, "upstream-source", Str(<<"x",":","l","a","t","e","s","t">>)))}

TheImage == Dict(Put(EmptyDict, "upstream-source", Str(<<"x",":","l","a","t","e","s","t">>)))

(* inputs of make_pod_spec *)

\* configurations that also carry the options make_pod_spec does not validate
ExtraPodConfigs ==
    {MkDict([site_url |-> su, cluster_issuer |-> Str(<<>>),
             ingress_whitelist_source_range |-> Str(<<>>), tls_secret_name |-> Str(<<>>),
             ingress_class |-> ic, image_pull_policy |-> ipp]) :
        su \in {Str(u_empty), Str(u_http), Str(u_https)},
        ic \in {Absent, Str(<<>>), Str(w_nginx)},
        ipp \in {Absent, Str(s_Always), Str(s_Never)}}

PodConfigs ==
    {MkDict([site_url |-> su, cluster_issuer |-> ci,
             ingress_whitelist_source_range |-> wl, tls_secret_name |-> ts]) :
        su \in {Absent, None, IntV(5)} \cup {Str(u) : u \in SiteUrls},
        ci \in {Absent, Str(<<>>), Str(w_vault), IntV(5)},
        wl \in {Absent, Str(<<>>), Str(w_cidr), Str(w_notcidr), Str(w_hostbits)},
        ts \in {Absent, Str(<<>>), Str(w_secret)}}
    \cup ExtraPodConfigs

RelationState(host, port, user, password, root_password) ==
    MkDict([mysql_host |-> host, mysql_port |-> port, mysql_user |-> user,
            mysql_password |-> password, mysql_root_password |-> root_password])

r_mysql == Str(<<"m","y","s","q","l">>)
r_3306 == Str(<<"3","3","0","6">>)
r_mano == Str(<<"m","a","n","o">>)
r_manopw == Str(<<"m","a","n","o","p","w">>)
r_rootpw == Str(<<"r","o","o","t","p","w">>)
r_other == Str(<<"d","b","2">>)

ValidRelationStates ==
    {RelationState(r_mysql, r_3306, r_mano, r_manopw, r_rootpw),
     RelationState(r_mysql, r_3306, r_other, r_other, r_rootpw),
     RelationState(r_other, Str(<<"1">>), r_mano, r_manopw, r_other)}
    \cup {RelationState(r_mysql, r_3306, r_mano, r_manopw, Str(w)) : w \in Words}

InvalidRelationStates ==
    {EmptyDict,
     RelationState(r_mysql, IntV(3306), r_mano, r_manopw, r_rootpw),
     RelationState(r_mysql, Str(<<"a","b","c">>), r_mano, r_manopw, r_rootpw),
     RelationState(r_mysql, Str(<<"0">>), r_mano, r_manopw, r_rootpw),
     RelationState(r_mysql, Str(<<"-","1">>), r_mano, r_manopw, r_rootpw),
     RelationState(Str(<<>>), r_3306, r_mano, r_manopw, r_rootpw),
     RelationState(r_mysql, r_3306, r_mano, r_manopw, Absent),
     RelationState(Absent, Str(<<"a","b","c">>), Absent, r_manopw, r_rootpw)}

MakePodSpecCalls ==
    {[fn |-> "make_pod_spec", image_info |-> im, config |-> c, relation_state |-> r,
      app_name |-> AppName, port |-> PORT] :
        im \in ImageInfos, c \in PodConfigs,
        r \in ValidRelationStates \cup InvalidRelationStates}

(* inputs of build_pod_spec *)

m_uri == <<"m","y","s","q","l",":","/","/","u","s","e","r",":","p","a","s","s","@","m","y","s","q","l","-","h","o","s","t",":","3","3","0","6">>
m_uri_db == <<"m","y","s","q","l",":","/","/","u",":","p","@","h",":","1","/","d","b">>
m_uri_nouser == <<"m","y","s","q","l",":","/","/","h",":","1">>
m_uri_at == <<"m","y","s","q","l",":","/","/","u",":","p","@","w","@","h",":","1">>
m_not_mysql == <<"p","g",":","/","/","u",":","p","@","h",":","1">>

MysqlUris ==
    {m_uri, m_uri_db, m_uri_nouser, m_uri_at, m_not_mysql}
    \cup {s_mysql_prefix \o <<"u", ":">> \o w \o <<"@", "h", ":", "1">> : w \in Words}

p_always == <<"a","l","w","a","y","s">>
p_Always == <<"A","l","w","a","y","s">>
p_ALWAYS == <<"A","L","W","A","Y","S">>
p_IfNotPresent == <<"I","f","N","o","t","P","r","e","s","e","n","t">>
p_NEVER == <<"N","E","V","E","R">>
p_bogus == <<"b","o","g","u","s">>
p_never == <<"n","e","v","e","r">>
p_ifNOTpresent == <<"i","f","N","O","T","p","r","e","s","e","n","t">>
p_alway == <<"a","l","w","a","y">>

PullPolicies ==
    {p_always, p_Always, p_ALWAYS, p_IfNotPresent, p_NEVER, p_bogus, p_never,
     p_ifNOTpresent, p_alway}

CharmConfig(su, ci, ic, wl, ts, mu, ipp, sc) ==
    MkDict([site_url |-> su, cluster_issuer |-> ci, ingress_class |-> ic,
            ingress_whitelist_source_range |-> wl, tls_secret_name |-> ts,
            mysql_uri |-> mu, image_pull_policy |-> ipp, security_context |-> sc])

\* configurations that vary the ingress options
IngressConfigs ==
    {CharmConfig(su, ci, ic, wl, ts, mu, Str(p_always), Bool(sc)) :
        su \in {Absent} \cup {Str(u) : u \in SiteUrls},
        ci \in {Str(<<>>), Str(w_vault)},
        ic \in {Absent, Str(w_nginx)},
        wl \in {Str(<<>>), Str(w_cidr), Str(w_notcidr)},
        ts \in {Str(<<>>), Str(w_secret)},
        mu \in {Str(<<>>), Str(m_uri)},
        sc \in BOOLEAN}

\* configurations that vary the credential source and the pull policy
CredentialConfigs ==
    {CharmConfig(su, Str(<<>>), Absent, Str(<<>>), Str(<<>>), mu, Str(ipp), Bool(sc)) :
        su \in {Str(u_empty), Str(u_https)},
        mu \in {Absent, Str(<<>>)} \cup {Str(u) : u \in MysqlUris},
        ipp \in PullPolicies,
        sc \in BOOLEAN}

\* the data the related mysql unit published
RelationData(host, port, user, password, root_password) ==
    MkDict([host |-> host, port |-> port, user |-> user, password |-> password,
            root_password |-> root_password, database |-> Str(<<"p","o","l">>)])

NoRelation == EmptyDict
FullRelation == RelationData(r_mysql, r_3306, r_mano, r_manopw, r_rootpw)
PartialRelation == RelationData(r_mysql, r_3306, r_mano, r_manopw, Absent)

FullRelations ==
    {FullRelation, RelationData(r_other, Str(<<"1">>), r_other, r_other, r_other)}
    \cup {RelationData(r_mysql, r_3306, r_mano, r_manopw, Str(w)) : w \in Words}

MissingRelations ==
    {NoRelation, PartialRelation, RelationData(Str(<<>>), r_3306, r_mano, r_manopw, r_rootpw)}

BuildPodSpecCalls ==
    {[fn |-> "build_pod_spec", image_info |-> TheImage, config |-> c, relation |-> r,
      app_name |-> AppName] :
        c \in IngressConfigs, r \in {NoRelation, FullRelation}}
    \cup
    {[fn |-> "build_pod_spec", image_info |-> TheImage, config |-> c, relation |-> r,
      app_name |-> AppName] :
        c \in CredentialConfigs, r \in FullRelations \cup MissingRelations}

-----------------------------------------------------------------------------
(* The functions applied to bounded inputs *)

NoCall == [fn |-> "none"]
Pending == [kind |-> "pending"]

CharmStart ==
    /\ config = CharmConfig(Str(u_empty), Str(<<>>), Absent, Str(<<>>), Str(<<>>),
                            Str(<<>>), Str(p_always), Bool(FALSE))
    /\ relation = NoRelation
    /\ is_leader = TRUE
    /\ status = [name |-> "MaintenanceStatus"]
    /\ pod_spec = None
    /\ scrape_info = None
    /\ dashboard_info = None

InitFn ==
    /\ call \in MakePodSpecCalls \cup BuildPodSpecCalls
    /\ result = Pending
    /\ CharmStart

CallMakePodSpec ==
    /\ call.fn = "make_pod_spec"
    /\ result = Pending
    /\ result' = make_pod_spec(call.image_info, call.config, call.relation_state,
                               call.app_name, call.port)
    /\ UNCHANGED <<call, charmVars>>

\* variant: the relation data is taken from the charm's state, not from the call
CallBuildPodSpec_reads_charm_state ==
    /\ call.fn = "build_pod_spec"
    /\ result = Pending
    /\ result' = build_pod_spec(call.image_info, call.config, relation, call.app_name)
    /\ UNCHANGED <<call, charmVars>>

CallBuildPodSpec ==
    /\ call.fn = "build_pod_spec"
    /\ result = Pending
    /\ result' = build_pod_spec(call.image_info, call.config, call.relation, call.app_name)
    /\ UNCHANGED <<call, charmVars>>

NextFn == CallMakePodSpec \/ CallBuildPodSpec

SpecFn == InitFn /\ [][NextFn]_vars

-----------------------------------------------------------------------------
(* The charm handling events *)

s_metrics_path == <<"/","m","e","t","r","i","c","s">>
s_osm_mysql == <<"o","s","m","-","m","y","s","q","l">>
s_30s == <<"3","0","s">>
s_15s == <<"1","5","s">>
s_443 == <<"4","4","3">>
s_80 == <<"8","0">>
s_9104 == <<"9","1","0","4">>
s_https_prefix == <<"h","t","t","p","s",":","/","/">>
s_http_prefix == <<"h","t","t","p",":","/","/">>

METRICS_PATH == Str(s_metrics_path)

\* the configurations the operator may set on the deployed application
CharmConfigs ==
    {CharmConfig(su, Str(w_vault), Absent, Str(<<>>), Str(<<>>), mu, Str(p_always),
                 Bool(FALSE)) :
        su \in {Absent, Str(u_empty), Str(u_http), Str(u_https), Str(u_ftp)},
        mu \in {Str(<<>>), Str(m_uri), Str(m_not_mysql)}}

\* the data a related mysql unit may publish
CharmRelations ==
    {PartialRelation, FullRelation}

Init ==
    /\ call = NoCall
    /\ result = Pending
    /\ config \in CharmConfigs
    /\ relation = NoRelation
    /\ is_leader \in BOOLEAN
    /\ status = [name |-> "MaintenanceStatus"]
    /\ pod_spec = None
    /\ scrape_info = None
    /\ dashboard_info = None

\* the leader's half of CharmedOsmBase.configure_pod, given the outcome of
\* build_pod_spec: the pod spec is set, or the failure is reported as
\* BlockedStatus and no pod spec is set
set_pod_spec(built) ==
    IF built.kind = "raise"
    THEN /\ status' = [name |-> "BlockedStatus", error |-> built.exc,
                       message |-> built.about]
         /\ UNCHANGED pod_spec
    ELSE /\ status' = [name |-> "ActiveStatus"]
         /\ pod_spec' = built.value

\* variant: every unit builds the pod spec, leader or not
configure_pod_every_unit(cfg, rel) ==
    set_pod_spec(build_pod_spec(TheImage, cfg, rel, AppName))

\* CharmedOsmBase.configure_pod with the configuration and relation data given:
\* a unit that is not the leader goes active without building anything
configure_pod(cfg, rel) ==
    IF ~is_leader
    THEN /\ status' = [name |-> "ActiveStatus"]
         /\ UNCHANGED pod_spec
    ELSE set_pod_spec(build_pod_spec(TheImage, cfg, rel, AppName))

\* config-changed: the operator set the configuration
ConfigChanged ==
    /\ \E c \in CharmConfigs :
          /\ config' = c
          /\ configure_pod(c, relation)
    /\ UNCHANGED <<relation, is_leader, scrape_info, dashboard_info, fnVars>>

\* variant: relation-changed also writes the hostname of the site URL now
\* configured into the scrape target already published
MysqlRelationChanged_republishes ==
    /\ \E r \in CharmRelations :
          /\ relation' = r
          /\ configure_pod(config, r)
    /\ scrape_info' =
          IF is_leader /\ scrape_info # None /\ "site_url" \in DOMAIN config
          THEN [scrape_info EXCEPT
                  !.hostname = IF Truthy(config["site_url"])
                               THEN UrlHostname(config["site_url"].s) ELSE AppName]
          ELSE scrape_info
    /\ UNCHANGED <<config, is_leader, dashboard_info, fnVars>>

\* variant: relation-changed is not observed, the pod is not configured again
MysqlRelationChanged_not_observed ==
    /\ \E r \in CharmRelations : relation' = r
    /\ UNCHANGED <<config, is_leader, status, pod_spec, scrape_info, dashboard_info, fnVars>>

\* mysql relation-changed: the related unit published its data
MysqlRelationChanged ==
    /\ \E r \in CharmRelations :
          /\ relation' = r
          /\ configure_pod(config, r)
    /\ UNCHANGED <<config, is_leader, scrape_info, dashboard_info, fnVars>>

\* variant: the pod is configured from the relation data held before the break
MysqlRelationBroken_stale_relation ==
    /\ relation # NoRelation
    /\ relation' = NoRelation
    /\ configure_pod(config, relation)
    /\ UNCHANGED <<config, is_leader, scrape_info, dashboard_info, fnVars>>

\* variant: relation-broken is not observed, the pod is not configured again
MysqlRelationBroken_not_observed ==
    /\ relation # NoRelation
    /\ relation' = NoRelation
    /\ UNCHANGED <<config, is_leader, status, pod_spec, scrape_info, dashboard_info, fnVars>>

\* mysql relation-broken: the relation and its data are gone
MysqlRelationBroken ==
    /\ relation # NoRelation
    /\ relation' = NoRelation
    /\ configure_pod(config, NoRelation)
    /\ UNCHANGED <<config, is_leader, scrape_info, dashboard_info, fnVars>>

\* the unit gains or loses leadership
LeaderChanged ==
    /\ is_leader' = ~is_leader
    /\ UNCHANGED <<config, relation, status, pod_spec, scrape_info, dashboard_info, fnVars>>

\* variant: the port is always that of the exporter
_publish_scrape_info_exporter_port(cfg) ==
    IF "site_url" \notin DOMAIN cfg THEN Raise("KeyError", <<"site_url">>)
    ELSE LET site_url == cfg["site_url"]
             hostname == IF Truthy(site_url) THEN UrlHostname(site_url.s) ELSE AppName
             port == Str(s_9104)
         IN  Return([hostname |-> hostname,
                     port |-> port,
                     metrics_path |-> METRICS_PATH,
                     scrape_interval |-> Str(s_30s),
                     scrape_timeout |-> Str(s_15s)])

_publish_scrape_info(cfg) ==
    IF "site_url" \notin DOMAIN cfg THEN Raise("KeyError", <<"site_url">>)
    ELSE LET site_url == cfg["site_url"]
             hostname == IF Truthy(site_url) THEN UrlHostname(site_url.s) ELSE AppName
             port == IF StartsWith(site_url.s, s_https_prefix) THEN Str(s_443)
                     ELSE IF StartsWith(site_url.s, s_http_prefix) THEN Str(s_80)
                     ELSE Str(s_9104)
         IN  Return([hostname |-> hostname,
                     port |-> port,
                     metrics_path |-> METRICS_PATH,
                     scrape_interval |-> Str(s_30s),
                     scrape_timeout |-> Str(s_15s)])

\* prometheus-scrape relation-joined
PrometheusScrapeJoined ==
    /\ scrape_info' = IF is_leader /\ _publish_scrape_info(config).kind = "return"
                      THEN _publish_scrape_info(config).value
                      ELSE scrape_info
    /\ UNCHANGED <<config, relation, is_leader, status, pod_spec, dashboard_info, fnVars>>

_publish_dashboard_info ==
    [name |-> Str(s_osm_mysql), dashboard |-> "templates/mysql_exporter_dashboard.json"]

\* variant: the dashboard is published whether or not the unit is the leader
GrafanaDashboardJoined_any_unit ==
    /\ dashboard_info' = _publish_dashboard_info
    /\ UNCHANGED <<config, relation, is_leader, status, pod_spec, scrape_info, fnVars>>

\* grafana-dashboard relation-joined
GrafanaDashboardJoined ==
    /\ dashboard_info' = IF is_leader THEN _publish_dashboard_info ELSE dashboard_info
    /\ UNCHANGED <<config, relation, is_leader, status, pod_spec, scrape_info, fnVars>>

Next ==
    \/ ConfigChanged
    \/ MysqlRelationChanged
    \/ MysqlRelationBroken
    \/ LeaderChanged
    \/ PrometheusScrapeJoined
    \/ GrafanaDashboardJoined

Spec == Init /\ [][Next]_vars

-----------------------------------------------------------------------------
(* Properties *)

\* the five values of the relation are all present and non-empty
FullyPopulated(rel) ==
    \A key \in {"host", "port", "user", "password", "root_password"} :
        key \in DOMAIN rel /\ rel[key].t = "str" /\ rel[key].s # <<>>

\* mysql_uri is set to a non-empty value
MysqlUriSet(data) == Truthy(Get(data, "mysql_uri"))

\* the configuration is a Configuration of the data model: it passes ConfigModel
PassesValidation(data) == ConfigModel(data).kind = "return"

\* a step in which configure_pod ran on the leader
LeaderConfigures ==
    is_leader /\ (ConfigChanged \/ MysqlRelationChanged \/ MysqlRelationBroken)

ConflictMessage == <<"Mysql data cannot be provided via config and relation">>

\* C1: with mysql_uri set and the relation fully populated build_pod_spec returns
\* no specification, for a configuration that passes validation the failure is
\* the credential conflict, and whichever event the leader handles (the
\* configuration or the relation arriving last) leaves the unit in BlockedStatus
\* with the pod spec untouched.
C1_MutualExclusion ==
    /\ [](MysqlUriSet(config) /\ FullyPopulated(relation)
            => LET built == build_pod_spec(TheImage, config, relation, AppName)
               IN  /\ built.kind = "raise"
                   /\ PassesValidation(config)
                        => built.exc = "Exception" /\ built.about = ConflictMessage)
    /\ [][LeaderConfigures /\ MysqlUriSet(config') /\ FullyPopulated(relation')
            => /\ status'.name = "BlockedStatus"
               /\ pod_spec' = pod_spec
               /\ PassesValidation(config') => status'.message = ConflictMessage]_vars

C1_Witness ==
    /\ is_leader
    /\ MysqlUriSet(config) /\ PassesValidation(config)
    /\ FullyPopulated(relation)
    /\ status.name = "BlockedStatus" /\ status.message = ConflictMessage

\* C2: with mysql_uri empty and the relation data missing, build_pod_spec on a
\* configuration that passes validation raises RelationsMissing naming exactly
\* "mysql", and a config-changed event on the leader leaves the unit in
\* BlockedStatus with a message naming mysql.
C2_MissingDependency ==
    /\ [](~MysqlUriSet(config) /\ ~FullyPopulated(relation)
            => LET built == build_pod_spec(TheImage, config, relation, AppName)
               IN  /\ built.kind = "raise"
                   /\ PassesValidation(config)
                        => built.exc = "RelationsMissing" /\ built.about = <<"mysql">>)
    /\ [][is_leader /\ ConfigChanged
            /\ ~MysqlUriSet(config') /\ ~FullyPopulated(relation')
            => /\ status'.name = "BlockedStatus"
               /\ pod_spec' = pod_spec
               /\ PassesValidation(config')
                    => status'.error = "RelationsMissing"
                       /\ status'.message = <<"mysql">>]_vars

C2_Witness ==
    /\ is_leader
    /\ ~MysqlUriSet(config) /\ PassesValidation(config)
    /\ relation = NoRelation
    /\ status.name = "BlockedStatus" /\ status.message = <<"mysql">>

BuildDone == call.fn = "build_pod_spec" /\ result # Pending
MakeDone == call.fn = "make_pod_spec" /\ result # Pending

\* the call returned a specification
IsSpec(r) == r.kind = "return" /\ r.value # None

\* "root:" + root_password + "@(" + host + ":" + port + ")/"
RelationDsn(root_password, host, port) ==
    Str(<<"r","o","o","t",":">> \o root_password.s \o <<"@","(">> \o host.s
        \o <<":">> \o port.s \o <<")","/">>)

\* the connection string of a specification returned by build_pod_spec
SecretDataSource(spec) == spec.secrets[1].data.data_source

\* C3: for a configuration that passes validation build_pod_spec returns a
\* specification exactly when one of the two credential sources is present, both
\* is the conflict error, neither is the missing relation, and the connection
\* string is built from the source that is present and does not change with
\* what is left of the other one.
C3_ExactlyOneSource ==
    BuildDone /\ PassesValidation(call.config)
    => LET uri == MysqlUriSet(call.config)
           rel == FullyPopulated(call.relation)
       IN  /\ (result.kind = "return") <=> (uri # rel)
           /\ uri /\ rel => result.kind = "raise" /\ result.exc = "Exception"
           /\ ~uri /\ ~rel => result.kind = "raise" /\ result.exc = "RelationsMissing"
           /\ uri /\ ~rel =>
                \A r \in MissingRelations :
                    SecretDataSource(build_pod_spec(call.image_info, call.config, r,
                                                    call.app_name).value)
                        = SecretDataSource(result.value)
           /\ ~uri /\ rel =>
                /\ SecretDataSource(result.value)
                     = RelationDsn(call.relation["root_password"], call.relation["host"],
                                   call.relation["port"])
                /\ \A mu \in {Str(<<>>), None} :
                    SecretDataSource(build_pod_spec(call.image_info,
                                                    Put(call.config, "mysql_uri", mu),
                                                    call.relation, call.app_name).value)
                        = SecretDataSource(result.value)

C3_Witness ==
    /\ BuildDone /\ PassesValidation(call.config)
    /\ MysqlUriSet(call.config) /\ call.relation = PartialRelation
    /\ result.kind = "return"

\* C4: without an image (None or empty) make_pod_spec returns None and raises
\* nothing, whatever the configuration and the relation state are.
C4_NoImageNoSpec ==
    MakeDone /\ ~Truthy(call.image_info) => result = Return(None)

C4_Witness ==
    /\ MakeDone /\ call.image_info = None
    /\ Get(call.relation_state, "mysql_port") = IntV(3306)
    /\ Get(call.config, "ingress_whitelist_source_range") = Str(w_notcidr)
    /\ result = Return(None)

\* C5: built from the relation, the connection string is
\* "root:" + root_password + "@(" + host + ":" + port + ")/", in
\* envConfig.DATA_SOURCE_NAME of make_pod_spec and in the secret of build_pod_spec.
C5_RelationConnectionString ==
    /\ MakeDone /\ IsSpec(result)
         => /\ result.value.containers[1].envConfig.DATA_SOURCE_NAME
                 = RelationDsn(call.relation_state["mysql_root_password"],
                               call.relation_state["mysql_host"],
                               call.relation_state["mysql_port"])
            /\ call.relation_state
                 = RelationState(r_mysql, r_3306, r_mano, r_manopw, r_rootpw)
                 => result.value.containers[1].envConfig.DATA_SOURCE_NAME.s
                      = <<"r","o","o","t",":","r","o","o","t","p","w","@","(",
                          "m","y","s","q","l",":","3","3","0","6",")","/">>
    /\ BuildDone /\ result.kind = "return" /\ ~MysqlUriSet(call.config)
         => SecretDataSource(result.value)
              = RelationDsn(call.relation["root_password"], call.relation["host"],
                            call.relation["port"])

C5_Witness ==
    /\ MakeDone /\ IsSpec(result)
    /\ call.relation_state = RelationState(r_mysql, r_3306, r_mano, r_manopw, r_rootpw)

\* the URI is mysql://<userinfo>@<authority> or mysql://<userinfo>@<authority>/<rest>
\* with no "@" and no "/" inside userinfo and authority
UriHead(uri) == SplitHead(Drop(uri, Len(s_mysql_prefix) + 1), s_slash)
WellFormedUri(uri) ==
    /\ StartsWith(uri, s_mysql_prefix)
    /\ Cardinality({k \in 1..Len(UriHead(uri)) : UriHead(uri)[k] = "@"}) = 1
UriUserinfo(uri) == SubSeq(UriHead(uri), 1, Find(UriHead(uri), <<"@">>) - 1)
UriAuthority(uri) == Drop(UriHead(uri), Find(UriHead(uri), <<"@">>) + 1)

Ingresses(r) == r.value.kubernetesResources.ingressResources.items

SiteUrlSchemeIn(cfg, schemes) ==
    /\ IsStr(Get(cfg, "site_url"))
    /\ UrlScheme(Get(cfg, "site_url").s) \in schemes

\* C7: with an image, a valid relation state and a valid configuration whose
\* site_url has scheme http, make_pod_spec returns one ingress resource named
\* <app_name>-ingress with ssl-redirect "false", no tls block, and one rule for
\* the URL's hostname routing "/" to app_name:port.
C7_HttpIngress ==
    MakeDone /\ Truthy(call.image_info)
        /\ _validate_data(call.config, call.relation_state).kind = "return"
        /\ SiteUrlSchemeIn(call.config, {s_http})
    => /\ IsSpec(result)
       /\ Len(Ingresses(result)) = 1
       /\ LET ingress == Ingresses(result)[1]
          IN  /\ ingress.name = Str(call.app_name.s \o s_ingress_suffix)
              /\ AnnSslRedirect \in DOMAIN ingress.annotations
              /\ ingress.annotations[AnnSslRedirect] = Str(s_false)
              /\ "tls" \notin DOMAIN ingress.spec
              /\ ingress.spec.rules
                   = <<[host |-> UrlHostname(call.config["site_url"].s),
                        http |-> [paths |-> <<[path |-> Str(s_slash),
                                               backend |-> [serviceName |-> call.app_name,
                                                            servicePort |-> call.port]]>>]]>>

\* C8: an ingress emitted for a site_url with scheme https has the tls block
\* [{hosts: [hostname]}], with secretName (the value of tls_secret_name) exactly
\* when tls_secret_name is non-empty, and no ssl-redirect annotation.
C8_HttpsTls ==
    MakeDone /\ IsSpec(result) /\ SiteUrlSchemeIn(call.config, {s_https})
    => /\ Len(Ingresses(result)) = 1
       /\ LET ingress == Ingresses(result)[1]
              secret == Get(call.config, "tls_secret_name")
          IN  /\ "tls" \in DOMAIN ingress.spec
              /\ Len(ingress.spec["tls"]) = 1
              /\ DOMAIN ingress.spec["tls"][1] \subseteq {"hosts", "secretName"}
              /\ ingress.spec["tls"][1]["hosts"]
                   = <<UrlHostname(call.config["site_url"].s)>>
              /\ ("secretName" \in DOMAIN ingress.spec["tls"][1]) <=> Truthy(secret)
              /\ Truthy(secret) => ingress.spec["tls"][1]["secretName"] = secret
              /\ AnnSslRedirect \notin DOMAIN ingress.annotations

C8_Witness ==
    /\ MakeDone /\ IsSpec(result)
    /\ Get(call.config, "site_url") = Str(u_upper)
    /\ Get(call.config, "tls_secret_name") = Str(w_secret)
    /\ "secretName" \in DOMAIN Ingresses(result)[1].spec["tls"][1]

\* site_url is empty, None or not a key of the configuration
NoSiteUrl(cfg) == Get(cfg, "site_url") \in {Str(<<>>), None}

\* C9: without a site_url _make_pod_ingress_resources yields no ingress, and
\* make_pod_spec, which returns a specification for every valid relation state
\* and valid configuration, returns it with ingressResources the empty list.
C9_NoSiteUrlEmptyList ==
    MakeDone /\ Truthy(call.image_info) /\ NoSiteUrl(call.config)
    => /\ _make_pod_ingress_resources(call.config, call.app_name, call.port)
            = Return(None)
       /\ _validate_data(call.config, call.relation_state).kind = "return"
            => IsSpec(result)
       /\ IsSpec(result)
            => /\ "ingressResources" \in DOMAIN result.value.kubernetesResources
               /\ result.value.kubernetesResources.ingressResources = List(<<>>)

C9_Witness ==
    /\ MakeDone /\ IsSpec(result)
    /\ "site_url" \notin DOMAIN call.config
    /\ Get(call.config, "cluster_issuer") = Str(w_vault)
    /\ result.value.kubernetesResources.ingressResources = List(<<>>)

\* C10: a specification carries an ingress resource only when the scheme of
\* site_url is exactly http or https, in make_pod_spec and in build_pod_spec.
C10_IngressOnlyForHttpOrHttps ==
    /\ MakeDone /\ IsSpec(result) /\ ~SiteUrlSchemeIn(call.config, {s_http, s_https})
         => Ingresses(result) = <<>>
    /\ BuildDone /\ result.kind = "return"
         /\ ~SiteUrlSchemeIn(call.config, {s_http, s_https})
         => result.value.ingress_resources = <<>>

\* C11: with an image, every configuration and relation state that
\* _validate_data accepts gives a specification: nothing is raised while the
\* container and the ingress are built, also when site_url is set and
\* ingress_whitelist_source_range, cluster_issuer or tls_secret_name is not a key.
C11_NoFailureAfterValidation ==
    MakeDone /\ Truthy(call.image_info)
        /\ _validate_data(call.config, call.relation_state).kind = "return"
    => IsSpec(result)

\* the canonical casing of a lower-cased pull policy
CanonicalPolicy(lowered) ==
    CASE lowered = s_always -> s_Always
      [] lowered = s_ifnotpresent -> s_IfNotPresent
      [] lowered = s_never -> s_Never

PolicyNames == {s_always, s_ifnotpresent, s_never}

\* the container of a specification returned by build_pod_spec
BuiltContainer(r) == r.value.containers[1]

\* C12: whatever its casing, an image_pull_policy that lower-cases to always,
\* ifnotpresent or never is validated to Always, IfNotPresent or Never, which
\* validates to itself, and ConfigModel stores that value; every other value is
\* rejected, build_pod_spec fails with a validation error, and the error names
\* image_pull_policy when the other fields are valid.
C12_PullPolicyNormalized ==
    BuildDone
    => LET given == call.config["image_pull_policy"]
           lowered == Lower(given.s)
       IN  /\ lowered \in PolicyNames
                => /\ validate_image_pull_policy(given)
                        = Valid(Str(CanonicalPolicy(lowered)))
                   /\ validate_image_pull_policy(Str(CanonicalPolicy(lowered)))
                        = Valid(Str(CanonicalPolicy(lowered)))
                   /\ PassesValidation(call.config)
                        => ConfigModel(call.config).value["image_pull_policy"]
                             = Str(CanonicalPolicy(lowered))
                   /\ result.kind = "return"
                        => BuiltContainer(result).image_pull_policy
                             = Str(CanonicalPolicy(lowered))
           /\ lowered \notin PolicyNames
                => /\ ~validate_image_pull_policy(given).ok
                   /\ result.kind = "raise" /\ result.exc = "ValidationError"
                   /\ PassesValidation(Put(call.config, "image_pull_policy", Str(s_Always)))
                        => result.about = <<"image_pull_policy">>

C12_Witness ==
    /\ BuildDone /\ result.kind = "return"
    /\ call.config["image_pull_policy"] = Str(p_ALWAYS)
    /\ BuiltContainer(result).image_pull_policy = Str(s_Always)

\* the container of a specification returned by make_pod_spec
MadeContainer(r) == r.value.containers[1]

\* C13: in every specification returned by build_pod_spec and by make_pod_spec
\* the pull policy of the container is the canonical form of the configured
\* image_pull_policy.
C13_PullPolicyFromConfig ==
    /\ BuildDone /\ result.kind = "return"
         => BuiltContainer(result).image_pull_policy
              = Str(CanonicalPolicy(Lower(call.config["image_pull_policy"].s)))
    /\ MakeDone /\ IsSpec(result) /\ "image_pull_policy" \in DOMAIN call.config
         => MadeContainer(result).imagePullPolicy
              = Str(CanonicalPolicy(Lower(call.config["image_pull_policy"].s)))

\* C14: ConfigModel accepts an absent or empty site_url, and a non-empty
\* site_url whose scheme does not start with "http" is rejected: build_pod_spec
\* fails with a validation error naming site_url and returns no specification.
C14_SiteUrlValidated ==
    BuildDone
    => LET site_url == Get(call.config, "site_url")
       IN  /\ ~Truthy(site_url)
                => /\ validate_site_url(site_url) = Valid(site_url)
                   /\ PassesValidation(Put(call.config, "site_url", Str(u_https)))
                        => PassesValidation(call.config)
           /\ Truthy(site_url) /\ ~StartsWith(UrlScheme(site_url.s), s_http)
                => /\ ~validate_site_url(site_url).ok
                   /\ result = Raise("ValidationError", <<"site_url">>)

C14_Witness ==
    /\ BuildDone
    /\ Get(call.config, "site_url") = Str(u_ftp)
    /\ call.relation = FullRelation
    /\ result = Raise("ValidationError", <<"site_url">>)

\* the relation state has its five values, each a non-empty string, the port a
\* decimal text denoting a positive integer
StateFullyPopulated(relation_state) ==
    /\ \A key \in {"mysql_host", "mysql_user", "mysql_password", "mysql_root_password"} :
          /\ key \in DOMAIN relation_state
          /\ IsStr(relation_state[key])
          /\ relation_state[key].s # <<>>
    /\ "mysql_port" \in DOMAIN relation_state
    /\ IsStr(relation_state["mysql_port"])
    /\ IsDecimal(relation_state["mysql_port"].s)
    /\ DecimalValue(relation_state["mysql_port"].s) > 0

\* C15: with a non-empty image_info, make_pod_spec raises ValueError and returns
\* no specification whenever the relation state is not fully populated.
C15_IncompleteRelationState ==
    MakeDone /\ Truthy(call.image_info) /\ ~StateFullyPopulated(call.relation_state)
    => result.kind = "raise" /\ result.exc = "ValueError"

C15_Witness ==
    /\ MakeDone /\ call.image_info = TheImage
    /\ call.relation_state = EmptyDict
    /\ result.kind = "raise" /\ result.exc = "ValueError"

\* the keys whose value the validators of _validate_data do not accept
OffendingKeys(config_data, relation_data) ==
    {key \in Range(ConfigValidatorKeys) :
        ~config_validators(key, Get(config_data, key))}
    \cup {key \in Range(RelationValidatorKeys) \ {"mysql_port"} :
        ~relation_validators(key, Get(relation_data, key))}
    \cup {key \in {"mysql_port"} :
        LET value == Get(relation_data, key)
        IN  ~(IsStr(value) /\ IntParses(value.s) /\ IntOf(value.s) > 0)}

\* C16: when a value is rejected, the ValueError of _validate_data lists exactly
\* the keys whose validator rejected the value, each once, for every
\* combination of invalid inputs.
C16_EveryOffendingField ==
    MakeDone /\ Truthy(call.image_info)
        /\ OffendingKeys(call.config, call.relation_state) # {}
    => /\ result.kind = "raise" /\ result.exc = "ValueError"
       /\ Range(result.about) = OffendingKeys(call.config, call.relation_state)
       /\ Len(result.about) = Cardinality(OffendingKeys(call.config, call.relation_state))

\* the text has a ":" with something on both sides
HasColonPair(s) == Find(s, <<":">>) > 1 /\ Find(s, <<":">>) < Len(s)

\* the URI is mysql://<user>:<password>@<host>:<port>, possibly followed by /<rest>
EncodesCredentials(uri) ==
    /\ WellFormedUri(uri)
    /\ HasColonPair(UriUserinfo(uri))
    /\ HasColonPair(UriAuthority(uri))

\* C17: a non-empty mysql_uri that does not start with "mysql://" fails
\* validation for field mysql_uri, and a mysql_uri from which build_pod_spec
\* builds the connection string encodes user, password, host and port.
C17_MysqlUriComponents ==
    BuildDone /\ MysqlUriSet(call.config)
    => /\ ~StartsWith(call.config["mysql_uri"].s, s_mysql_prefix)
            => result.kind = "raise" /\ result.exc = "ValidationError"
       /\ result.kind = "return" => EncodesCredentials(call.config["mysql_uri"].s)

\* the annotation `key` is in `annotations` exactly when the option is set
\* (non-empty), and then carries the value of the option
AnnotatedIff(annotations, key, option) ==
    /\ (key \in DOMAIN annotations) <=> Truthy(option)
    /\ Truthy(option) => annotations[key] = option

\* the ingress resources of a specification returned by build_pod_spec
BuiltIngresses(r) == r.value.ingress_resources

\* C18: every emitted ingress carries the whitelist-source-range annotation
\* exactly when ingress_whitelist_source_range is set and the cluster-issuer
\* annotation exactly when cluster_issuer is set, each with the configured value,
\* whatever the other option and the scheme are.
C18_WhitelistAndIssuerAnnotations ==
    /\ MakeDone /\ IsSpec(result) /\ Len(Ingresses(result)) = 1
         => /\ AnnotatedIff(Ingresses(result)[1].annotations, AnnWhitelist,
                            Get(call.config, "ingress_whitelist_source_range"))
            /\ AnnotatedIff(Ingresses(result)[1].annotations, AnnClusterIssuer,
                            Get(call.config, "cluster_issuer"))
    /\ BuildDone /\ result.kind = "return" /\ Len(BuiltIngresses(result)) = 1
         => /\ AnnotatedIff(BuiltIngresses(result)[1].annotations, AnnWhitelist,
                            Get(call.config, "ingress_whitelist_source_range"))
            /\ AnnotatedIff(BuiltIngresses(result)[1].annotations, AnnClusterIssuer,
                            Get(call.config, "cluster_issuer"))

C18_Witness ==
    /\ MakeDone /\ IsSpec(result) /\ Len(Ingresses(result)) = 1
    /\ Get(call.config, "site_url") = Str(u_https)
    /\ Get(call.config, "ingress_whitelist_source_range") = Str(<<>>)
    /\ Get(call.config, "cluster_issuer") = Str(w_vault)
    /\ DOMAIN Ingresses(result)[1].annotations = {AnnClusterIssuer}

\* C19: every emitted ingress carries the kubernetes.io/ingress.class annotation
\* with the value of ingress_class exactly when ingress_class is set, in
\* build_pod_spec and in make_pod_spec.
C19_IngressClassAnnotation ==
    /\ BuildDone /\ result.kind = "return" /\ Len(BuiltIngresses(result)) = 1
         => AnnotatedIff(BuiltIngresses(result)[1].annotations, AnnIngressClass,
                         Get(call.config, "ingress_class"))
    /\ MakeDone /\ IsSpec(result) /\ Len(Ingresses(result)) = 1
         => AnnotatedIff(Ingresses(result)[1].annotations, AnnIngressClass,
                         Get(call.config, "ingress_class"))

s_e_io == <<"e",".","i","o">>

\* the payload the claim describes for a configuration with the option site_url
ScrapeTarget(cfg) ==
    [hostname |-> IF Truthy(cfg["site_url"]) THEN UrlHostname(cfg["site_url"].s)
                  ELSE AppName,
     port |-> IF StartsWith(cfg["site_url"].s, s_https_prefix) THEN Str(s_443)
              ELSE IF StartsWith(cfg["site_url"].s, s_http_prefix) THEN Str(s_80)
              ELSE Str(s_9104),
     metrics_path |-> Str(s_metrics_path),
     scrape_interval |-> Str(s_30s),
     scrape_timeout |-> Str(s_15s)]

C21_OnlyLeaderPublishes ==
    /\ [][scrape_info' # scrape_info \/ dashboard_info' # dashboard_info
            => is_leader]_vars
    /\ [][(PrometheusScrapeJoined \/ GrafanaDashboardJoined) /\ ~is_leader
            => scrape_info' = scrape_info /\ dashboard_info' = dashboard_info]_vars

C21_Witness ==
    /\ ~is_leader
    /\ scrape_info # None
    /\ dashboard_info = None

\* the leader is blocked because the mysql dependency is missing
BlockedOnMysql ==
    /\ is_leader
    /\ status.name = "BlockedStatus"
    /\ status.error = "RelationsMissing"

\* C22: when the leader is blocked on the missing mysql dependency, a mysql
\* relation-changed event that brings complete relation data, or a config-changed
\* event that sets a valid configuration with a mysql_uri, builds the pod spec
\* again: the unit is in ActiveStatus afterwards and the pod spec is set.
C22_BlockedResolves ==
    [][BlockedOnMysql
         /\ \/ MysqlRelationChanged /\ FullyPopulated(relation')
            \/ ConfigChanged /\ MysqlUriSet(config') /\ PassesValidation(config')
       => /\ status'.name = "ActiveStatus"
          /\ pod_spec' # None
          /\ pod_spec' = build_pod_spec(TheImage, config', relation', AppName).value]_vars

C22_Witness ==
    /\ is_leader
    /\ status.name = "ActiveStatus"
    /\ ~MysqlUriSet(config)
    /\ relation = FullRelation
    /\ pod_spec # None
    /\ SecretDataSource(pod_spec) = RelationDsn(r_rootpw, r_mysql, r_3306)

\* the step reports the outcome `built`: the error as BlockedStatus, or
\* ActiveStatus with the specification set
Reports(built) ==
    IF built.kind = "raise"
    THEN status' = [name |-> "BlockedStatus", error |-> built.exc, message |-> built.about]
    ELSE status' = [name |-> "ActiveStatus"] /\ pod_spec' = built.value

\* C23: whatever events came before and in whatever order the configuration and
\* the relation data arrived, the outcome the leader reports after a
\* config-changed, relation-changed or relation-broken event is that of
\* build_pod_spec on the configuration and relation data now in force.
C23_NoStateBetweenInvocations ==
    [][LeaderConfigures
         => Reports(build_pod_spec(TheImage, config', relation', AppName))]_vars

C23_Witness ==
    /\ is_leader
    /\ status.name = "BlockedStatus" /\ status.error = "Exception"
    /\ MysqlUriSet(config) /\ relation = FullRelation
    /\ pod_spec # None

C25_NonLeaderActive ==
    [][ConfigChanged /\ ~is_leader
         => status'.name = "ActiveStatus" /\ pod_spec' = pod_spec]_vars

C25_Witness ==
    /\ ~is_leader
    /\ status.name = "ActiveStatus"
    /\ relation = NoRelation /\ ~MysqlUriSet(config) /\ PassesValidation(config)
    /\ pod_spec = None

\* C26: every specification returned by build_pod_spec has the one secret
\* <app>-mysql-secret with the connection string under data_source, binds
\* DATA_SOURCE_NAME of the container to the key data_source of that secret, and
\* names that secret in the restart policy; the container is run-as-non-root and
\* the security context of the pod is enabled exactly when security_context is true.
C26_SecretAndSecurityContext ==
    BuildDone /\ result.kind = "return"
    => LET spec == result.value
           secret == spec.secrets[1]
           container == BuiltContainer(result)
       IN  /\ Len(spec.secrets) = 1
           /\ secret.name = Str(call.app_name.s \o s_mysql_secret_suffix)
           /\ DOMAIN secret.data = {"data_source"}
           /\ IsStr(secret.data.data_source) /\ secret.data.data_source.s # <<>>
           /\ ~MysqlUriSet(call.config)
                => secret.data.data_source
                     = RelationDsn(call.relation["root_password"], call.relation["host"],
                                   call.relation["port"])
           /\ container.secret_envs.secret_name = secret.name
           /\ container.secret_envs.envs = [DATA_SOURCE_NAME |-> Str(s_data_source)]
           /\ spec.restart_policy.secret_names = secret.name
           /\ container.run_as_non_root = call.config["security_context"]
           /\ spec.enable_security_context = call.config["security_context"]
           /\ call.config["security_context"] \in {Bool(TRUE), Bool(FALSE)}

C26_Witness ==
    /\ BuildDone /\ result.kind = "return"
    /\ call.config["security_context"] = Bool(TRUE)
    /\ BuiltContainer(result).run_as_non_root = Bool(TRUE)
    /\ result.value.restart_policy.secret_names
         = Str(AppName.s \o s_mysql_secret_suffix)

\* an ingress has a TLS block exactly when the scheme of the site URL is https,
\* and has the annotation ssl-redirect = "false" exactly when it has no TLS block
TlsXorNoRedirect(has_tls, annotations, site_url) ==
    /\ has_tls <=> UrlScheme(site_url.s) = s_https
    /\ has_tls <=> ~(/\ AnnSslRedirect \in DOMAIN annotations
                     /\ annotations[AnnSslRedirect] = Str(s_false))

\* C27: every ingress emitted by make_pod_spec or by build_pod_spec has either a
\* TLS block or the annotation ssl-redirect = "false", never both and never
\* neither, and has the TLS block exactly when the scheme is https.
C27_TlsXorSslRedirect ==
    /\ MakeDone /\ IsSpec(result)
         => \A i \in 1..Len(Ingresses(result)) :
               TlsXorNoRedirect("tls" \in DOMAIN Ingresses(result)[i].spec,
                                Ingresses(result)[i].annotations,
                                Get(call.config, "site_url"))
    /\ BuildDone /\ result.kind = "return"
         => \A i \in 1..Len(BuiltIngresses(result)) :
               TlsXorNoRedirect(BuiltIngresses(result)[i].tls # <<>>,
                                BuiltIngresses(result)[i].annotations,
                                Get(call.config, "site_url"))

C27_Witness ==
    /\ MakeDone /\ IsSpec(result) /\ Len(Ingresses(result)) = 1
    /\ Get(call.config, "site_url") = Str(u_https)
    /\ "tls" \in DOMAIN Ingresses(result)[1].spec
    /\ AnnSslRedirect \notin DOMAIN Ingresses(result)[1].annotations

\* the leader is blocked because mysql_uri and complete relation data are both there
BlockedOnConflict ==
    /\ is_leader
    /\ status.name = "BlockedStatus"
    /\ status.error = "Exception"

\* C28: a mysql relation-broken event on the leader removes the relation data and
\* builds again: without mysql_uri the unit ends in BlockedStatus, for the missing
\* mysql relation when the configuration is otherwise valid; with mysql_uri set
\* and the unit blocked on conflicting credentials, the unit ends in ActiveStatus
\* with the pod spec built from mysql_uri.
C28_RelationBrokenRebuilds ==
    [][is_leader /\ MysqlRelationBroken
       => /\ relation' = NoRelation
          /\ ~MysqlUriSet(config)
               => /\ status'.name = "BlockedStatus"
                  /\ PassesValidation(config)
                       => /\ status'.error = "RelationsMissing"
                          /\ status'.message = <<"mysql">>
          /\ MysqlUriSet(config) /\ BlockedOnConflict
               => /\ status'.name = "ActiveStatus"
                  /\ pod_spec' # None
                  /\ SecretDataSource(pod_spec')
                       = Str(SplitHead(Drop(config["mysql_uri"].s, Len(s_mysql_prefix) + 1),
                                       <<"@">>)
                             \o <<"@", "(">>
                             \o Drop(config["mysql_uri"].s,
                                     Find(config["mysql_uri"].s, <<"@">>) + 1)
                             \o <<")", "/">>)]_vars

C28_Witness ==
    /\ is_leader
    /\ relation = NoRelation
    /\ MysqlUriSet(config)
    /\ status.name = "ActiveStatus"
    /\ pod_spec # None
    /\ SecretDataSource(pod_spec)
         = Str(<<"u","s","e","r",":","p","a","s","s","@","(","m","y","s","q","l","-",
                 "h","o","s","t",":","3","3","0","6",")","/">>)

\* other values a related unit may publish as user and as password
OtherCredentials == {r_mano, r_other, Str(<<"x">>)}

\* C29: for a valid relation state, the result of make_pod_spec and of
\* build_pod_spec is the same whatever non-empty values the user and the
\* password have, image, configuration, app name and port being equal: the
\* result does not depend on mysql_user and mysql_password.
C29_UserPasswordNonInterference ==
    /\ MakeDone /\ StateFullyPopulated(call.relation_state)
         => \A user \in OtherCredentials, password \in OtherCredentials :
               make_pod_spec(call.image_info, call.config,
                             Put(Put(call.relation_state, "mysql_user", user),
                                 "mysql_password", password),
                             call.app_name, call.port) = result
    /\ BuildDone /\ FullyPopulated(call.relation)
         => \A user \in OtherCredentials, password \in OtherCredentials :
               build_pod_spec(call.image_info, call.config,
                              Put(Put(call.relation, "user", user), "password", password),
                              call.app_name) = result

C29_Witness ==
    /\ MakeDone /\ IsSpec(result)
    /\ call.relation_state["mysql_user"] = r_other
    /\ call.relation_state["mysql_password"] = r_other
    /\ MadeContainer(result).envConfig
         = [DATA_SOURCE_NAME |-> RelationDsn(r_rootpw, r_mysql, r_3306)]

\* C30: the scrape target changes only in a prometheus-scrape relation-joined
\* step; config-changed, mysql relation-changed and mysql relation-broken leave
\* the published scrape target as it was, also when site_url changes.
C30_ScrapeInfoFrame ==
    /\ [][scrape_info' # scrape_info => PrometheusScrapeJoined]_vars
    /\ [][ConfigChanged \/ MysqlRelationChanged \/ MysqlRelationBroken
            => scrape_info' = scrape_info]_vars

C30_Witness ==
    /\ is_leader
    /\ scrape_info # None
    /\ Get(config, "site_url") = Str(u_https)
    /\ scrape_info.hostname = Str(<<"m","y","s","q","l","d","-","e","x","p","o","r","t","e","r">>)
    /\ scrape_info.port = Str(s_80)
    /\ scrape_info # _publish_scrape_info(config).value

=============================================================================
